---- MODULE Spec2Model ----
(***************************************************************************)
(* Transcoding-job orchestration of rustflix: the TranscodingJob entity    *)
(* (rustflix-core/src/streaming.rs), the transcoding_jobs table behind     *)
(* StreamingRepository (rustflix-database/src/repositories/streaming.rs),  *)
(* the job-control handlers of StreamHandler (rustflix-api/src/handlers.rs)*)
(* and the HLS playlist generator (rustflix-streaming/src/hls.rs).         *)
(*                                                                         *)
(* Numbers: progress is an f32 percentage, modelled by integers; a segment *)
(* duration is an f64 number of seconds, modelled in tenths of a second.   *)
(***************************************************************************)
EXTENDS Integers, Sequences, FiniteSets, TLC

\* ------------------------------------------------------------------ bounds
MaxJobs == 2          \* rows the transcoding_jobs table may hold
PoolSize == 1         \* worker slots of the scenario (transcoding_threads)
MaxQueue == 1         \* length of the bounded wait queue of the scenario

Media == {"m1", "m2"}                 \* media (asset) ids
Profiles == {"hd"}                    \* transcoding profiles
ProgressInputs == {-10, 30, 70, 150}  \* values handed to update_progress
Errors == {"e1", "e2"}                \* diagnostics handed to fail
SegmentDurations == {65}              \* HlsGenerator.segment_duration, tenths of a second
None == "None"                        \* Option::None

JobIds == 1..MaxJobs

VARIABLES
    jobs,            \* the transcoding_jobs rows in created_at order; a job's id is its index
    playlists,       \* job id -> the HLS playlist last generated for its output (<<>>: none)
    response,        \* the last response of a StreamHandler job-control handler
    cancelledQueued, \* ids for which cancel_transcode answered while the job was Queued
    hls,             \* the HlsGenerator: segment_duration (tenths of a second), segment_count
    hlsPlaylist,     \* the result of its last generate_playlist (<<>>: none yet)
    hlsSegments,     \* the result of its last generate_segments, with the media it was run on
    sessions,        \* the streaming_sessions rows: session id -> row
    sessionResult,   \* the last StreamingRepository session call and what it returned
    endedSessions,   \* ids whose row was deleted (ended or swept) and not re-created
    negotiation,     \* the last stream request, its answer and the descriptor returned
    conns,           \* websocket connections: broadcast backlog, queue, the three tasks
    publishResult,   \* what the last broadcast_event call returned
    dash,            \* the DashGenerator: segment_duration, adaptation_sets
    manifests,       \* per job, the MPD last generated for it (none: <<>>)
    jobObj,          \* one TranscodingJob object, driven through its own methods
    lastFail,        \* the message of the most recent fail call on it (None: no call)
    cancelledRunning,\* ids for which cancel_transcode answered while the job was Running
    jobRows,         \* transcoding_jobs rows with their timestamps: id -> status, updated_at
    now,             \* the database clock, in days
    gcResult,        \* rows_affected of the last cleanup_old_jobs (-1: not called yet)
    authSessions,    \* SessionManager.sessions: session id -> user_id, last_activity, is_active
    authNow,         \* Utc::now() for the SessionManager, in ticks
    nextSession,     \* how many session ids Uuid::new_v4 has handed out
    invalidated      \* ids on which invalidate_session found a session

jobVars == <<jobs, playlists, response, cancelledQueued>>
hlsVars == <<hls, hlsPlaylist, hlsSegments>>
sessionVars == <<sessions, sessionResult, endedSessions>>
negVars == <<negotiation>>
wsVars == <<conns, publishResult>>
dashVars == <<dash, manifests>>
objVars == <<jobObj, lastFail>>
cancelVars == <<cancelledRunning>>
gcVars == <<jobRows, now, gcResult>>
authVars == <<authSessions, authNow, nextSession, invalidated>>

\* what the job-control actions leave alone
notJob == <<hlsVars, sessionVars, negVars, wsVars, dashVars, objVars, cancelVars, gcVars, authVars>>

\* what the actions of each other part leave alone
notHls == <<jobVars, sessionVars, negVars, wsVars, dashVars, objVars, cancelVars, gcVars, authVars>>
notSession == <<jobVars, hlsVars, negVars, wsVars, dashVars, objVars, cancelVars, gcVars, authVars>>
notNeg == <<jobVars, hlsVars, sessionVars, wsVars, dashVars, objVars, cancelVars, gcVars, authVars>>
notWs == <<jobVars, hlsVars, sessionVars, negVars, dashVars, objVars, cancelVars, gcVars, authVars>>
notDash == <<jobVars, hlsVars, sessionVars, negVars, wsVars, objVars, cancelVars, gcVars, authVars>>
notObj == <<jobVars, hlsVars, sessionVars, negVars, wsVars, dashVars, cancelVars, gcVars, authVars>>
notCancel == <<hlsVars, sessionVars, negVars, wsVars, dashVars, objVars, gcVars, authVars>>
notGc == <<jobVars, hlsVars, sessionVars, negVars, wsVars, dashVars, objVars, cancelVars, authVars>>
notAuth == <<jobVars, hlsVars, sessionVars, negVars, wsVars, dashVars, objVars, cancelVars, gcVars>>

vars == <<jobVars, hlsVars, sessionVars, negVars, wsVars, dashVars, objVars, cancelVars, gcVars, authVars>>

\* ------------------------------------------------------- TranscodingStatus
TranscodingStatus == {"Queued", "Starting", "Running", "Completed", "Failed", "Cancelled"}
Terminal == {"Completed", "Failed", "Cancelled"}
NonTerminal == TranscodingStatus \ Terminal

\* ----------------------------------------------------------- TranscodingJob
\* progress is an f32, here in whole percent; NaN stands for f32::NAN (every
\* ordering comparison with it is false in the source)
NaN == -1000

\* f32::clamp: "returns NaN if self is NaN"
clamp(x, lo, hi) ==
    IF x = NaN THEN NaN ELSE IF x < lo THEN lo ELSE IF x > hi THEN hi ELSE x

\* TranscodingJob::new
TranscodingJobNew(media_id, profile) ==
    [media_id |-> media_id, profile |-> profile, status |-> "Queued",
     progress |-> 0, error_message |-> None]

\* TranscodingJob::update_progress: no test of the status, no comparison with
\* the stored progress
update_progress(job, progress) ==
    [job EXCEPT !.progress = clamp(progress, 0, 100)]

\* TranscodingJob::complete
complete(job) ==
    [job EXCEPT !.status = "Completed", !.progress = 100]

\* a fail that marks the job Failed and drops the message
fail_without_message(job, error) ==
    [job EXCEPT !.status = "Failed"]

\* TranscodingJob::fail
fail(job, error) ==
    [job EXCEPT !.status = "Failed", !.error_message = error]

\* ------------------------------------------------------ StreamingRepository
Ids == 1..Len(jobs)

Range(s) == {s[i] : i \in 1..Len(s)}

Min(a, b) == IF a < b THEN a ELSE b

IdsWithStatus(S) ==
    SelectSeq([i \in 1..Len(jobs) |-> i], LAMBDA i : jobs[i].status \in S)

\* SELECT ... WHERE status IN ('queued', 'starting') ORDER BY created_at LIMIT $1
get_pending_jobs(limit) ==
    SubSeq(IdsWithStatus({"Queued", "Starting"}), 1,
           Min(limit, Len(IdsWithStatus({"Queued", "Starting"}))))

\* SELECT ... WHERE status = 'running' ORDER BY created_at
get_running_jobs == IdsWithStatus({"Running"})

Key(job) == <<job.media_id, job.profile>>

Busy == {j \in Ids : jobs[j].status \in {"Starting", "Running"}}
Waiting == {j \in Ids : jobs[j].status = "Queued"}

\* ------------------------------------------------------------ HlsGenerator
Tag(name, value) == [tag |-> name, value |-> value]

\* `self.segment_duration as u32`: the cast truncates toward zero and
\* saturates at 0 for a negative value
as_u32(tenths) == IF tenths < 0 THEN 0 ELSE tenths \div 10

\* HlsGenerator::generate_playlist: the four header lines and nothing else
generate_playlist(segment_duration) ==
    << Tag("#EXTM3U", 0),
       Tag("#EXT-X-VERSION", 3),
       Tag("#EXT-X-TARGETDURATION", as_u32(segment_duration)),
       Tag("#EXT-X-MEDIA-SEQUENCE", 0) >>

HasTag(playlist, name) == \E i \in 1..Len(playlist) : playlist[i].tag = name

\* -------------------------------------------------------------------- Init
\* StreamingConfig::default: segment_duration 6.0, segment_count 5
HlsInit ==
    /\ hls = [segment_duration |-> 60, segment_count |-> 5]
    /\ hlsPlaylist = <<>>
    /\ hlsSegments = [generated |-> FALSE, media_duration |-> 0, names |-> <<>>]

\* an empty streaming_sessions table
SessionInit ==
    /\ sessions = <<>>
    /\ sessionResult = [op |-> "none", result |-> "none"]
    /\ endedSessions = {}

\* no stream request made yet; an Option is a sequence of length 0 or 1
NegInit ==
    negotiation = [op |-> "none", format |-> "none", supported |-> {},
                   ceiling |-> <<>>, requested |-> <<>>, quality |-> "none",
                   code |-> "none", descriptor |-> <<>>]

\* WebSocketHandler::new: the channel exists, its first receiver is dropped
WsInit ==
    /\ conns = <<>>
    /\ publishResult = "none"

\* DashGenerator::new with StreamingConfig's default segment_duration
DashInit ==
    /\ dash = [segment_duration |-> 60, adaptation_sets |-> <<>>]
    /\ manifests = [j \in JobIds |-> <<>>]

\* TranscodingJob::new
ObjInit ==
    /\ jobObj = TranscodingJobNew("m1", "hd")
    /\ lastFail = None

\* no cancel request made yet
CancelInit ==
    cancelledRunning = {}

\* an empty transcoding_jobs table at day 0
GcInit ==
    /\ jobRows = <<>>
    /\ now = 0
    /\ gcResult = -1

\* SessionManager::new: no sessions
AuthInit ==
    /\ authSessions = <<>>
    /\ authNow = 0
    /\ nextSession = 0
    /\ invalidated = {}

Init ==
    /\ jobs = <<>>
    /\ playlists = [j \in JobIds |-> <<>>]
    /\ response = [op |-> "none", code |-> "none"]
    /\ cancelledQueued = {}
    /\ HlsInit
    /\ SessionInit
    /\ NegInit
    /\ WsInit
    /\ DashInit
    /\ ObjInit
    /\ CancelInit
    /\ GcInit
    /\ AuthInit

\* ----------------------------------------------------------------- actions
\* TranscodingJob::new followed by StreamingRepository::create_transcoding_job:
\* a plain INSERT, no look-up of the (media_id, profile) key, no capacity test
Submit(media_id, profile) ==
    /\ Len(jobs) < MaxJobs
    /\ jobs' = Append(jobs, TranscodingJobNew(media_id, profile))
    /\ UNCHANGED <<playlists, response, cancelledQueued, notJob>>

\* The source has no worker loop; what it offers a worker is
\* get_pending_jobs(limit), the rows in 'queued' or 'starting', and
\* update_transcoding_job, which writes the status it is handed.  StartJob is
\* the two in sequence for a queued row (queued -> starting).  The write is
\* unconditional: nothing reads get_running_jobs or transcoding_threads first
StartJob(j, limit) ==
    /\ j \in Range(get_pending_jobs(limit))
    /\ jobs[j].status = "Queued"
    /\ jobs' = [jobs EXCEPT ![j].status = "Starting"]
    /\ UNCHANGED <<playlists, response, cancelledQueued, notJob>>

\* The same for a row returned in state starting (starting -> running)
RunJob(j, limit) ==
    /\ j \in Range(get_pending_jobs(limit))
    /\ jobs[j].status = "Starting"
    /\ jobs' = [jobs EXCEPT ![j].status = "Running"]
    /\ UNCHANGED <<playlists, response, cancelledQueued, notJob>>

UpdateProgress(j, progress) ==
    /\ j \in Ids
    /\ jobs' = [jobs EXCEPT ![j] = update_progress(@, progress)]
    /\ UNCHANGED <<playlists, response, cancelledQueued, notJob>>

Complete(j) ==
    /\ j \in Ids
    /\ jobs' = [jobs EXCEPT ![j] = complete(@)]
    /\ UNCHANGED <<playlists, response, cancelledQueued, notJob>>

Fail(j, error) ==
    /\ j \in Ids
    /\ jobs' = [jobs EXCEPT ![j] = fail(@, error)]
    /\ UNCHANGED <<playlists, response, cancelledQueued, notJob>>

\* StreamHandler::start_transcode: the payload is dropped, 501 is returned
StartTranscode(media_id, profile) ==
    /\ response' = [op |-> "start_transcode", code |-> "NOT_IMPLEMENTED"]
    /\ UNCHANGED <<jobs, playlists, cancelledQueued, notJob>>

\* StreamHandler::cancel_transcode: the id is dropped, 200 is returned
CancelTranscode(id) ==
    /\ response' = [op |-> "cancel_transcode", code |-> "OK"]
    /\ cancelledQueued' =
         IF id \in Ids /\ jobs[id].status = "Queued"
         THEN cancelledQueued \cup {id} ELSE cancelledQueued
    /\ UNCHANGED <<jobs, playlists, notJob>>

\* StreamHandler::transcode_status: the id is dropped, 404 is returned
TranscodeStatus(id) ==
    /\ response' = [op |-> "transcode_status", code |-> "NOT_FOUND"]
    /\ UNCHANGED <<jobs, playlists, cancelledQueued, notJob>>

\* HlsGenerator::new(segment_duration, _).generate_playlist(..) on the output
\* directory of job j
GeneratePlaylist(j, segment_duration) ==
    /\ j \in Ids
    /\ playlists' = [playlists EXCEPT ![j] = generate_playlist(segment_duration)]
    /\ UNCHANGED <<jobs, response, cancelledQueued, notJob>>

Next ==
    \/ \E m \in Media, p \in Profiles : Submit(m, p)
    \/ \E j \in JobIds, limit \in 1..MaxJobs : StartJob(j, limit)
    \/ \E j \in JobIds, limit \in 1..MaxJobs : RunJob(j, limit)
    \/ \E j \in JobIds, p \in ProgressInputs : UpdateProgress(j, p)
    \/ \E j \in JobIds : Complete(j)
    \/ \E j \in JobIds, e \in Errors : Fail(j, e)
    \/ \E m \in Media, p \in Profiles : StartTranscode(m, p)
    \/ \E j \in JobIds : CancelTranscode(j)
    \/ \E j \in JobIds : TranscodeStatus(j)
    \/ \E j \in JobIds, d \in SegmentDurations : GeneratePlaylist(j, d)

Spec == Init /\ [][Next]_vars

TypeOK ==
    /\ Len(jobs) <= MaxJobs
    /\ \A j \in Ids :
         /\ jobs[j].media_id \in Media
         /\ jobs[j].profile \in Profiles
         /\ jobs[j].status \in TranscodingStatus
         /\ jobs[j].progress \in 0..100
         /\ jobs[j].error_message \in Errors \cup {None}
    /\ cancelledQueued \subseteq JobIds

\* ------------------------------------------------------------------ claims
SameKey(i, j) == Key(jobs[i]) = Key(jobs[j])

\* C1: at most one job in Queued, Starting or Running exists per
\* (media id, profile) key, whatever submits, cancels and worker steps ran.
C1_OneNonTerminalJobPerKey ==
    \A i \in Ids, j \in Ids :
        (i # j /\ SameKey(i, j) /\ jobs[i].status \in NonTerminal)
            => jobs[j].status \in Terminal

\* C2: while a job stays Running, no step lowers its progress.
C2_ProgressMonotoneWhileRunning ==
    [][\A j \in Ids :
          (jobs[j].status = "Running" /\ jobs'[j].status = "Running")
              => jobs'[j].progress >= jobs[j].progress]_vars

\* C3: a job whose status is Completed has progress exactly 100.
C3_CompletedHasFullProgress ==
    \A j \in Ids : jobs[j].status = "Completed" => jobs[j].progress = 100

\* C4: once a job is Completed, Failed or Cancelled, no step changes its
\* status, progress or error message.
C4_TerminalIsImmutable ==
    [][\A j \in Ids :
          jobs[j].status \in Terminal
              => /\ jobs'[j].status = jobs[j].status
                 /\ jobs'[j].progress = jobs[j].progress
                 /\ jobs'[j].error_message = jobs[j].error_message]_vars

\* C5: cancel moves a Queued or Running job to Cancelled; on a job that is
\* already terminal it answers success and leaves the job as it is.
C5_CancelMovesToCancelled ==
    [][\A j \in Ids :
          CancelTranscode(j)
              => /\ response'.code = "OK"
                 /\ jobs[j].status \in {"Queued", "Running"}
                        => jobs'[j].status = "Cancelled"
                 /\ jobs[j].status \in Terminal => jobs'[j] = jobs[j]]_vars

\* C6: a job cancelled while Queued is Cancelled from then on; it is never
\* seen in Starting or Running after the cancel.
C6_CancelledQueuedNeverRuns ==
    \A j \in cancelledQueued :
        /\ jobs[j].status \notin {"Starting", "Running"}
        /\ jobs[j].status = "Cancelled"

DistinctKeys == \A i \in Ids, j \in Ids : i # j => ~SameKey(i, j)

\* C7: the number of jobs in Starting or Running never exceeds the pool
\* size; with a pool of one, a second job stays Queued while the first is
\* Starting or Running. Stated for tables holding one job per key, so that
\* a violation does not rest on a duplicate submission.
C7_BusyWithinPool == DistinctKeys => Cardinality(Busy) <= PoolSize

Saturated == Cardinality(Busy) >= PoolSize /\ Cardinality(Waiting) >= MaxQueue

SubmitStep ==
    \/ \E m \in Media, p \in Profiles : Submit(m, p)
    \/ \E m \in Media, p \in Profiles : StartTranscode(m, p)

\* C8: a submit made while every worker slot is busy and the wait queue is
\* full answers ResourceExhausted and leaves the job table unchanged.
C8_SubmitExhaustedWhenSaturated ==
    [][(SubmitStep /\ Saturated)
          => (jobs' = jobs /\ response'.code = "ResourceExhausted")]_vars

\* C10: the playlist generated for a job holds #EXT-X-ENDLIST if and only if
\* the job is Completed at the time it is generated.
C10_EndlistIffCompleted ==
    [][\A j \in Ids :
          (\E d \in SegmentDurations : GeneratePlaylist(j, d))
              => (HasTag(playlists'[j], "#EXT-X-ENDLIST")
                      <=> jobs'[j].status = "Completed")]_vars

\* the status changes the job state machine allows
Edges ==
    {<<"Queued", "Starting">>, <<"Starting", "Running">>,
     <<"Running", "Completed">>, <<"Running", "Failed">>,
     <<"Running", "Cancelled">>, <<"Starting", "Failed">>,
     <<"Queued", "Cancelled">>}

\* C22: a job's status changes only along Queued -> Starting -> Running ->
\* {Completed, Failed, Cancelled}, Starting -> Failed and cancellation from
\* Queued or Running; a job becomes Completed only from Running.
C22_StatusFollowsEdges ==
    [][\A j \in Ids :
          jobs'[j].status # jobs[j].status
              => <<jobs[j].status, jobs'[j].status>> \in Edges]_vars

\* C25: queued jobs are admitted in FIFO order of submission: while job a,
\* submitted before job b (for another asset or profile), is Queued, b does
\* not leave Queued for Starting.
C25_FifoAdmission ==
    [][\A a, b \in Ids :
          (/\ a < b
           /\ Key(jobs[a]) # Key(jobs[b])
           /\ jobs[a].status = "Queued"
           /\ jobs[b].status = "Queued")
              => jobs'[b].status # "Starting"]_vars

\* C15: a status query answers with the job for every submitted id and with
\* not-found only for an id that was never submitted (or was evicted).
C15_StatusFindsSubmittedJob ==
    [][\A id \in JobIds :
          TranscodeStatus(id) => (response'.code = "NOT_FOUND" <=> id \notin Ids)]_vars

MaxSegments == 4                      \* largest segment_count tried
HlsSegmentDurations == {20, 60, 65}   \* tenths of a second: 2.0 s, 6.0 s, 6.5 s
MediaDurations == {100, 130, 240, 360} \* duration of the media file, tenths of a second

\* format!("segment_{:04}.ts", i)
SegmentName(i) == [stem |-> "segment_", index |-> i, ext |-> "ts"]

\* HlsGenerator::generate_segments: (0..segment_count) mapped to names; the
\* media file is not read
generate_segments(segment_count) ==
    [i \in 1..segment_count |-> SegmentName(i - 1)]

\* HlsGenerator::new
HlsNew(segment_duration, segment_count) ==
    /\ hls' = [segment_duration |-> segment_duration, segment_count |-> segment_count]
    /\ hlsPlaylist' = <<>>
    /\ hlsSegments' = [generated |-> FALSE, media_duration |-> 0, names |-> <<>>]
    /\ UNCHANGED notHls

\* generate_playlist(media_path, output_dir) on the generator
HlsGeneratePlaylist ==
    /\ hlsPlaylist' = generate_playlist(hls.segment_duration)
    /\ UNCHANGED <<hls, hlsSegments, notHls>>

\* generate_segments(media_path, output_dir) for a media file of the given duration
HlsGenerateSegments(media_duration) ==
    /\ hlsSegments' = [generated |-> TRUE, media_duration |-> media_duration,
                       names |-> generate_segments(hls.segment_count)]
    /\ UNCHANGED <<hls, hlsPlaylist, notHls>>

HlsNext ==
    \/ \E d \in HlsSegmentDurations, n \in 1..MaxSegments : HlsNew(d, n)
    \/ HlsGeneratePlaylist
    \/ \E m \in MediaDurations : HlsGenerateSegments(m)

SpecHls == Init /\ [][HlsNext]_vars

\* C11: the playlist starts with #EXTM3U, #EXT-X-VERSION:3 and an
\* #EXT-X-TARGETDURATION line whose value is the configured segment duration.
C11_TargetDurationMatches ==
    hlsPlaylist # <<>> =>
        /\ Len(hlsPlaylist) >= 3
        /\ hlsPlaylist[1] = Tag("#EXTM3U", 0)
        /\ hlsPlaylist[2] = Tag("#EXT-X-VERSION", 3)
        /\ hlsPlaylist[3].tag = "#EXT-X-TARGETDURATION"
        /\ hlsPlaylist[3].value * 10 = hls.segment_duration

Ceil(a, b) == (a + b - 1) \div b

ExtinfCount(playlist) ==
    Cardinality({i \in 1..Len(playlist) : playlist[i].tag = "#EXTINF"})

\* C12: for media of duration d and segment duration s the output has
\* ceil(d / s) segments, and the playlist has one #EXTINF entry per segment.
C12_SegmentCountIsCeil ==
    (hlsSegments.generated /\ hlsPlaylist # <<>>) =>
        /\ Len(hlsSegments.names) = Ceil(hlsSegments.media_duration, hls.segment_duration)
        /\ ExtinfCount(hlsPlaylist) = Len(hlsSegments.names)

\* ============================= StreamingRepository: streaming_sessions
MaxSessions == 2                 \* session ids in use
SessionIds == 1..MaxSessions
Positions == {0, 3, 7, 10}       \* current_position, seconds

\* the columns of a row that update_session writes and the claims read
SessionRow(position, paused) == [current_position |-> position, is_paused |-> paused]

\* StreamingRepository::create_session: INSERT of the row it is handed
CreateSession(id, position, paused) ==
    /\ id \notin DOMAIN sessions
    /\ sessions' = [i \in DOMAIN sessions \cup {id} |->
                       IF i = id THEN SessionRow(position, paused) ELSE sessions[i]]
    /\ sessionResult' = [op |-> "create_session", result |-> "Ok"]
    /\ endedSessions' = endedSessions \ {id}
    /\ UNCHANGED notSession

\* StreamingRepository::update_session: UPDATE ... SET current_position = $2, ...
\* WHERE id = $1.  The stored position is overwritten by the one handed in,
\* there is no seek flag, and a statement that matches no row is still Ok(())
UpdateSession(id, position, paused) ==
    /\ sessions' = [i \in DOMAIN sessions |->
                       IF i = id THEN SessionRow(position, paused) ELSE sessions[i]]
    /\ sessionResult' = [op |-> "update_session", result |-> "Ok"]
    /\ UNCHANGED endedSessions
    /\ UNCHANGED notSession

\* StreamingRepository::delete_session: DELETE ... WHERE id = $1
DeleteSession(id) ==
    /\ sessions' = [i \in DOMAIN sessions \ {id} |-> sessions[i]]
    /\ sessionResult' = [op |-> "delete_session", result |-> "Ok"]
    /\ endedSessions' = endedSessions \cup ({id} \cap DOMAIN sessions)
    /\ UNCHANGED notSession

\* StreamingRepository::cleanup_inactive_sessions: DELETE of the rows whose
\* last_activity is older than the threshold; inactive is that set of rows
cleanup_inactive_sessions(inactive) ==
    /\ inactive \subseteq DOMAIN sessions
    /\ sessions' = [i \in DOMAIN sessions \ inactive |-> sessions[i]]
    /\ sessionResult' = [op |-> "cleanup_inactive_sessions", result |-> "Ok"]
    /\ endedSessions' = endedSessions \cup inactive
    /\ UNCHANGED notSession

SessionNext ==
    \/ \E id \in SessionIds, p \in Positions, z \in BOOLEAN : CreateSession(id, p, z)
    \/ \E id \in SessionIds, p \in Positions, z \in BOOLEAN : UpdateSession(id, p, z)
    \/ \E id \in SessionIds : DeleteSession(id)
    \/ \E inactive \in SUBSET SessionIds : cleanup_inactive_sessions(inactive)

SpecSession == Init /\ [][SessionNext]_vars

\* C13: a position update that is not an explicit seek never lowers the
\* stored position of a session (the source has no seek flag, so no update
\* is one), and it is answered without an error.
C13_PositionNeverRegresses ==
    [][\A id \in DOMAIN sessions :
          (\E p \in Positions, z \in BOOLEAN : UpdateSession(id, p, z))
              => /\ sessions'[id].current_position >= sessions[id].current_position
                 /\ sessionResult'.result = "Ok"]_vars

\* C21: a position update addressed to a session id that no longer exists
\* (ended or swept) fails with SessionExpired and creates or changes no
\* session entry.
C21_StaleUpdateIsSessionExpired ==
    [][\A id \in endedSessions :
          (\E p \in Positions, z \in BOOLEAN : UpdateSession(id, p, z))
              => /\ sessionResult'.result = "SessionExpired"
                 /\ sessions' = sessions]_vars

\* ================================== stream requests: Quality, StreamInfo
Quality == {"UltraHD", "FullHD", "HD", "SD", "Low", "AudioOnly"}
StreamingProtocol == {"DirectPlay", "Hls", "Dash", "Progressive"}
Formats == {"Mp4", "Mkv"}                 \* MediaFormat of the asset
ClientSets == SUBSET Formats \ {{}}       \* formats a client declares it plays
Ceilings == {<<>>, <<3000>>, <<6000>>}    \* declared bandwidth ceiling, kbit/s

\* Quality::typical_bitrate, in kbit/s
typical_bitrate(q) ==
    CASE q = "UltraHD" -> 25000
      [] q = "FullHD" -> 8000
      [] q = "HD" -> 5000
      [] q = "SD" -> 2500
      [] q = "Low" -> 1000
      [] q = "AudioOnly" -> 128

\* Quality::resolution (None: the empty sequence)
resolution(q) ==
    CASE q = "UltraHD" -> <<3840, 2160>>
      [] q = "FullHD" -> <<1920, 1080>>
      [] q = "HD" -> <<1280, 720>>
      [] q = "SD" -> <<854, 480>>
      [] q = "Low" -> <<640, 360>>
      [] q = "AudioOnly" -> <<>>

\* StreamInfo::new: the descriptor for the protocol and quality handed in
StreamInfoNew(protocol, quality) ==
    [protocol |-> protocol, quality |-> quality,
     bitrate |-> typical_bitrate(quality), resolution |-> resolution(quality),
     video_codec |-> IF quality = "AudioOnly" THEN <<>> ELSE <<"h264">>,
     container |-> CASE protocol = "DirectPlay" -> "original"
                     [] protocol = "Hls" -> "ts"
                     [] protocol = "Dash" -> "mp4"
                     [] protocol = "Progressive" -> "mp4"]

\* StreamHandler::start_stream: the path id and the payload (protocol,
\* quality) are dropped and 501 is returned; no descriptor, no job.  The
\* asset's format and what the client declares are the context of the call
StartStream(format, supported, ceiling, requested, quality) ==
    /\ negotiation' = [op |-> "start_stream", format |-> format,
                       supported |-> supported, ceiling |-> ceiling,
                       requested |-> requested, quality |-> quality,
                       code |-> "NOT_IMPLEMENTED", descriptor |-> <<>>]
    /\ UNCHANGED notNeg

\* A direct call of StreamInfo::new for a request that names its protocol and
\* quality: both are copied into the descriptor as they are
NewStreamInfo(format, supported, ceiling, protocol, quality) ==
    /\ negotiation' = [op |-> "StreamInfo::new", format |-> format,
                       supported |-> supported, ceiling |-> ceiling,
                       requested |-> <<protocol>>, quality |-> quality,
                       code |-> "Ok",
                       descriptor |-> <<StreamInfoNew(protocol, quality)>>]
    /\ UNCHANGED notNeg

NegNext ==
    \/ \E f \in Formats, c \in ClientSets, b \in Ceilings, q \in Quality,
          r \in {<<>>} \cup {<<p>> : p \in StreamingProtocol} :
              StartStream(f, c, b, r, q)
    \/ \E f \in Formats, c \in ClientSets, b \in Ceilings, q \in Quality,
          p \in StreamingProtocol :
              NewStreamInfo(f, c, b, p, q)

SpecNeg == Init /\ [][NegNext]_vars

DirectPlayEligible ==
    /\ negotiation.format \in negotiation.supported
    /\ negotiation.requested \in {<<>>, <<"DirectPlay">>}

\* C14: a request for an asset whose format the client plays, with protocol
\* DirectPlay or unset, is answered with a DirectPlay descriptor, and no
\* transcoding job is created.
C14_DirectPlayWhenSupported ==
    (negotiation.op # "none" /\ DirectPlayEligible)
        => /\ negotiation.descriptor # <<>>
           /\ negotiation.descriptor[1].protocol = "DirectPlay"
           /\ jobs = <<>>

\* the tiers from the highest typical bitrate to the lowest
QualityOrder == <<"UltraHD", "FullHD", "HD", "SD", "Low", "AudioOnly">>

\* the highest tier whose typical bitrate is within the ceiling; HD without one
BestTier(ceiling) ==
    IF ceiling = <<>> THEN "HD"
    ELSE QualityOrder[CHOOSE i \in DOMAIN QualityOrder :
            /\ typical_bitrate(QualityOrder[i]) <= ceiling[1]
            /\ \A k \in 1..(i - 1) : typical_bitrate(QualityOrder[k]) > ceiling[1]]

NeedsTranscoding ==
    \/ negotiation.format \notin negotiation.supported
    \/ negotiation.requested \notin {<<>>, <<"DirectPlay">>}

\* C20: when transcoding is needed, the descriptor's quality is the highest
\* tier whose typical bitrate does not exceed the client's bandwidth ceiling,
\* and HD when the client declares no ceiling.
C20_QualityWithinCeiling ==
    (negotiation.op # "none" /\ NeedsTranscoding)
        => /\ negotiation.descriptor # <<>>
           /\ negotiation.descriptor[1].quality = BestTier(negotiation.ceiling)

\* ================================================ WebSocketHandler: events
MaxConns == 2          \* websocket connections opened
ChannelCapacity == 2   \* broadcast::channel(1000), scaled down
MaxPending == 3        \* longest unbounded_channel queue explored
ConnIds == 1..MaxConns

\* handle_socket up to the three spawns: subscribe() starts at the tail of the
\* broadcast channel, the mpsc queue is empty, the three tasks run
NewConn ==
    [backlog |-> 0, queue |-> <<>>,
     incoming |-> "running", outgoing |-> "running", sender |-> "running"]

Connect ==
    /\ Len(conns) < MaxConns
    /\ conns' = Append(conns, NewConn)
    /\ UNCHANGED <<publishResult, notWs>>

\* a broadcast Receiver lives as long as the outgoing task that owns it
Receivers == {c \in DOMAIN conns : conns[c].outgoing = "running"}

\* WebSocketHandler::broadcast_event: broadcast send never waits; it is an
\* error when no receiver exists, and the error is returned as Internal.
\* A receiver more than the capacity behind has lost its oldest events: its
\* backlog stays at ChannelCapacity + 1, meaning "lagged"
broadcast_event ==
    /\ publishResult' = IF Receivers = {} THEN "Err" ELSE "Ok"
    /\ conns' = [c \in DOMAIN conns |->
                    IF c \in Receivers
                    THEN [conns[c] EXCEPT
                            !.backlog = Min(@ + 1, ChannelCapacity + 1)]
                    ELSE conns[c]]
    /\ UNCHANGED notWs

\* mpsc UnboundedSender::send: queued while the receiving half lives, dropped
\* (result ignored) once the sender task has ended
tx_send(conn, message) ==
    IF conn.sender = "running"
    THEN [conn EXCEPT !.queue = Append(@, message)]
    ELSE conn

\* outgoing_task, one turn of `while let Ok(event) = event_receiver.recv()`:
\* Lagged ends the loop (receiver and tx are dropped with the task), an event
\* is forwarded into the unbounded queue
OutgoingRecv(c) ==
    /\ c \in DOMAIN conns
    /\ conns[c].outgoing = "running"
    /\ conns[c].backlog > 0
    /\ Len(conns[c].queue) < MaxPending
    /\ conns' = [conns EXCEPT ![c] =
                    IF @.backlog > ChannelCapacity
                    THEN [@ EXCEPT !.outgoing = "done", !.backlog = 0]
                    ELSE tx_send([@ EXCEPT !.backlog = @ - 1], "event")]
    /\ UNCHANGED <<publishResult, notWs>>

\* incoming_task on a Ping text frame: a Pong is queued for the socket
IncomingPing(c) ==
    /\ c \in DOMAIN conns
    /\ conns[c].incoming = "running"
    /\ Len(conns[c].queue) < MaxPending
    /\ conns' = [conns EXCEPT ![c] = tx_send(@, "pong")]
    /\ UNCHANGED <<publishResult, notWs>>

\* incoming_task on a Close frame, a socket error or the end of the stream
IncomingClose(c) ==
    /\ c \in DOMAIN conns
    /\ conns[c].incoming = "running"
    /\ conns' = [conns EXCEPT ![c].incoming = "done"]
    /\ UNCHANGED <<publishResult, notWs>>

\* sender_task, one turn of `while let Some(message) = rx.recv()`: the message
\* goes to the socket, or the socket send fails and the loop ends (rx dropped).
\* Once the client has closed (the incoming task has ended) a send can only fail
SenderSend(c, ok) ==
    /\ c \in DOMAIN conns
    /\ conns[c].sender = "running"
    /\ conns[c].queue # <<>>
    /\ ok => conns[c].incoming = "running"
    /\ conns' = [conns EXCEPT ![c] =
                    IF ok THEN [@ EXCEPT !.queue = Tail(@)]
                    ELSE [@ EXCEPT !.sender = "done", !.queue = <<>>]]
    /\ UNCHANGED <<publishResult, notWs>>

\* sender_task: rx.recv() is None once the queue is empty and both senders
\* (tx in outgoing_task, tx_clone in incoming_task) are dropped
SenderClosed(c) ==
    /\ c \in DOMAIN conns
    /\ conns[c].sender = "running"
    /\ conns[c].queue = <<>>
    /\ conns[c].incoming = "done"
    /\ conns[c].outgoing = "done"
    /\ conns' = [conns EXCEPT ![c].sender = "done"]
    /\ UNCHANGED <<publishResult, notWs>>

WsNext ==
    \/ Connect
    \/ broadcast_event
    \/ \E c \in ConnIds : OutgoingRecv(c)
    \/ \E c \in ConnIds : IncomingPing(c)
    \/ \E c \in ConnIds : IncomingClose(c)
    \/ \E c \in ConnIds, ok \in BOOLEAN : SenderSend(c, ok)
    \/ \E c \in ConnIds : SenderClosed(c)

SpecWs == Init /\ [][WsNext]_vars

\* C17: publishing is fire-and-forget: a publish call never fails because of
\* subscriber availability, including when there are zero subscribers.
C17_PublishNeverFails ==
    [][broadcast_event => publishResult' = "Ok"]_vars

\* events held for one subscriber: still in the broadcast channel (at most
\* its capacity, older ones are overwritten) or forwarded into the queue and
\* not yet written to its socket
Buffered(c) ==
    Min(conns[c].backlog, ChannelCapacity)
        + Cardinality({i \in DOMAIN conns[c].queue : conns[c].queue[i] = "event"})

\* C18: the number of events buffered for any one subscriber never exceeds a
\* fixed bound (the capacity of its channel).
C18_SubscriberQueueBounded ==
    \A c \in DOMAIN conns : Buffered(c) <= ChannelCapacity

\* a step of one of the tasks spawned for connection c
TaskStep(c) ==
    \/ OutgoingRecv(c)
    \/ \E ok \in BOOLEAN : SenderSend(c, ok)
    \/ SenderClosed(c)

\* the runtime keeps scheduling spawned tasks: a task that can take a step
\* eventually takes one.  Clients and publishers are under no obligation
SpecWsFair ==
    Init /\ [][WsNext]_vars /\ \A c \in ConnIds : WF_vars(TaskStep(c))

\* C29: after a client closes its connection, all three tasks spawned for it
\* eventually terminate, whatever is broadcast afterwards.
C29_TasksTerminateAfterClose ==
    \A c \in ConnIds :
        (c \in DOMAIN conns /\ conns[c].incoming = "done")
            ~> (/\ c \in DOMAIN conns
                /\ conns[c].incoming = "done"
                /\ conns[c].outgoing = "done"
                /\ conns[c].sender = "done")

\* =========================================================== DashGenerator
MaxAdaptationSets == 2
DashSegmentDurations == {20, 60}      \* tenths of a second
ContentTypes == {"video", "audio"}

\* DashGenerator::new
DashNew(segment_duration) ==
    /\ dash' = [segment_duration |-> segment_duration, adaptation_sets |-> <<>>]
    /\ UNCHANGED <<manifests, notDash>>

\* the Representations a caller registers for a media type: one per tier
Representations(content_type) ==
    IF content_type = "video"
    THEN <<[id |-> "hd", bandwidth |-> typical_bitrate("HD"),
            size |-> resolution("HD"), codec |-> "h264"],
           [id |-> "sd", bandwidth |-> typical_bitrate("SD"),
            size |-> resolution("SD"), codec |-> "h264"]>>
    ELSE <<[id |-> "audio", bandwidth |-> typical_bitrate("AudioOnly"),
            size |-> resolution("AudioOnly"), codec |-> "aac"]>>

\* DashGenerator::add_adaptation_set
add_adaptation_set(content_type) ==
    /\ Len(dash.adaptation_sets) < MaxAdaptationSets
    /\ dash' = [dash EXCEPT !.adaptation_sets =
                  Append(@, [id |-> Len(@) + 1, content_type |-> content_type,
                             representations |-> Representations(content_type)])]
    /\ UNCHANGED <<manifests, notDash>>

\* DashGenerator::generate_manifest: the MPD text is a fixed template; only
\* minBufferTime is filled in, the Period holds a comment and no element
generate_manifest ==
    [type |-> "static", mediaPresentationDuration |-> 3600,
     minBufferTime |-> dash.segment_duration, period |-> <<>>]

\* generate_manifest called for the media of job j
DashGenerateManifest(j) ==
    /\ j \in Ids
    /\ manifests' = [manifests EXCEPT ![j] = <<generate_manifest>>]
    /\ UNCHANGED <<dash, notDash>>

DashNext ==
    \/ \E m \in Media, p \in Profiles : Submit(m, p)
    \/ \E j \in JobIds, limit \in 1..MaxJobs : StartJob(j, limit)
    \/ \E j \in JobIds, limit \in 1..MaxJobs : RunJob(j, limit)
    \/ \E j \in JobIds : Complete(j)
    \/ \E j \in JobIds, e \in Errors : Fail(j, e)
    \/ \E d \in DashSegmentDurations : DashNew(d)
    \/ \E t \in ContentTypes : add_adaptation_set(t)
    \/ \E j \in JobIds : DashGenerateManifest(j)

SpecDash == Init /\ [][DashNext]_vars

\* C19: a DASH manifest generated for a job has type="static" if and only if
\* the job is Completed; generated while the job is Running it has
\* type="dynamic".
C19_StaticIffCompleted ==
    [][\A j \in Ids :
          (DashGenerateManifest(j) /\ jobs[j].status \in {"Running", "Completed"})
              => manifests'[j][1].type =
                    IF jobs[j].status = "Completed" THEN "static" ELSE "dynamic"]_vars

\* C26: the generated DASH manifest contains, inside its Period, every
\* AdaptationSet registered with add_adaptation_set, with its Representations.
C26_ManifestHasAdaptationSets ==
    [][\A j \in Ids :
          DashGenerateManifest(j)
              => manifests'[j][1].period = dash.adaptation_sets]_vars

\* ============================================ one TranscodingJob object
\* values handed to update_progress: below, inside and above [0, 100], and NaN
F32Inputs == {NaN, -10, 150} \cup {5 * k : k \in 0..20}

\* job.update_progress(progress, _)
JobUpdateProgress(progress) ==
    /\ jobObj' = update_progress(jobObj, progress)
    /\ UNCHANGED <<lastFail, notObj>>

\* job.complete()
JobComplete ==
    /\ jobObj' = complete(jobObj)
    /\ UNCHANGED <<lastFail, notObj>>

\* job.fail(error)
JobFail(error) ==
    /\ jobObj' = fail(jobObj, error)
    /\ lastFail' = error
    /\ UNCHANGED notObj

ObjNext ==
    \/ \E p \in F32Inputs : JobUpdateProgress(p)
    \/ JobComplete
    \/ \E e \in Errors : JobFail(e)

SpecObj == Init /\ [][ObjNext]_vars

\* C23: in every reachable state of a TranscodingJob, 0 <= progress <= 100.
C23_ProgressInRange ==
    /\ jobObj.progress # NaN
    /\ 0 <= jobObj.progress
    /\ jobObj.progress <= 100

\* C27: in every reachable state of a TranscodingJob, status = Failed implies
\* that error_message is present and is the message of the most recent fail
\* call; and fail leaves progress unchanged.
C27_FailedHasLastError ==
    /\ [](jobObj.status = "Failed"
            => jobObj.error_message # None /\ jobObj.error_message = lastFail)
    /\ [][\A e \in Errors : JobFail(e) => jobObj'.progress = jobObj.progress]_vars

\* a job that failed with message e2 after progress 30 was reported
C27_Witness ==
    /\ jobObj.status = "Failed"
    /\ jobObj.error_message = "e2"
    /\ jobObj.progress = 30

\* ======================================= cancelling a Running job, observed
\* StreamHandler::cancel_transcode called with the id of a Running job: as in
\* CancelTranscode the id is dropped and 200 is returned; the id is noted
CancelRunningJob(id) ==
    /\ id \in Ids
    /\ jobs[id].status = "Running"
    /\ response' = [op |-> "cancel_transcode", code |-> "OK"]
    /\ cancelledRunning' = cancelledRunning \cup {id}
    /\ UNCHANGED <<jobs, playlists, cancelledQueued, notCancel>>

CancelNext ==
    \/ \E m \in Media, p \in Profiles : Submit(m, p)
    \/ \E j \in JobIds, limit \in 1..MaxJobs : StartJob(j, limit)
    \/ \E j \in JobIds, limit \in 1..MaxJobs : RunJob(j, limit)
    \/ \E j \in JobIds, p \in ProgressInputs : UpdateProgress(j, p)
    \/ \E j \in JobIds : Complete(j)
    \/ \E j \in JobIds, e \in Errors : Fail(j, e)
    \/ \E j \in JobIds : CancelRunningJob(j)

\* the handlers and workers keep being scheduled: a step that can change the
\* state is eventually taken
SpecCancel == Init /\ [][CancelNext]_vars /\ WF_vars(CancelNext)

\* C24: every cancel of a Running job eventually finishes: the job reaches
\* Cancelled.
C24_CancelOfRunningFinishes ==
    \A j \in JobIds :
        (j \in cancelledRunning) ~> (j \in Ids /\ jobs[j].status = "Cancelled")

\* ============================ StreamingRepository: cleanup_old_jobs and time
MaxRows == 2           \* job ids in the table
MaxTime == 3           \* days the clock runs
MaxDays == 2           \* largest days_old handed to cleanup_old_jobs
RowIds == 1..MaxRows
GcDays == (-1)..MaxDays
GcStatuses == {"Queued", "Running", "Completed", "Cancelled"}

\* a WHERE clause without the status test
old_any_status(row, t, days_old) ==
    row.updated_at < t - days_old

\* WHERE status IN ('completed', 'failed', 'cancelled')
\*   AND updated_at < NOW() - $1 * INTERVAL '1 day'
old_terminal(row, t, days_old) ==
    /\ row.status \in Terminal
    /\ row.updated_at < t - days_old

\* create_transcoding_job: INSERT of a new job's row, Queued and stamped with
\* the current time as TranscodingJob::new makes it
GcCreate(id) ==
    /\ id \notin DOMAIN jobRows
    /\ jobRows' = [i \in DOMAIN jobRows \cup {id} |->
                      IF i = id THEN [status |-> "Queued", updated_at |-> now]
                      ELSE jobRows[i]]
    /\ UNCHANGED <<now, gcResult, notGc>>

\* update_transcoding_job: UPDATE ... SET status = $2, updated_at = $7 WHERE id = $1
GcUpdate(id, status) ==
    /\ id \in DOMAIN jobRows
    /\ jobRows' = [jobRows EXCEPT ![id] = [status |-> status, updated_at |-> now]]
    /\ UNCHANGED <<now, gcResult, notGc>>

\* a day passes
Tick ==
    /\ now < MaxTime
    /\ now' = now + 1
    /\ UNCHANGED <<jobRows, gcResult, notGc>>

\* StreamingRepository::cleanup_old_jobs: DELETE of the matching rows, the
\* number of rows deleted is returned
cleanup_old_jobs(days_old) ==
    LET gone == {i \in DOMAIN jobRows : old_terminal(jobRows[i], now, days_old)}
    IN  /\ jobRows' = [i \in DOMAIN jobRows \ gone |-> jobRows[i]]
        /\ gcResult' = Cardinality(gone)
        /\ UNCHANGED <<now, notGc>>

GcNext ==
    \/ \E id \in RowIds : GcCreate(id)
    \/ \E id \in RowIds, st \in GcStatuses : GcUpdate(id, st)
    \/ Tick
    \/ \E d \in GcDays : cleanup_old_jobs(d)

SpecGc == Init /\ [][GcNext]_vars

\* C28: cleanup_old_jobs never removes a job that is Queued, Starting or
\* Running, never removes a terminal job whose last update is younger than the
\* retention window, and leaves every job it keeps unchanged.
C28_GcKeepsLiveAndYoungJobs ==
    [][\A d \in GcDays :
          cleanup_old_jobs(d) =>
              /\ \A i \in DOMAIN jobRows :
                    (\/ jobRows[i].status \in NonTerminal
                     \/ now - jobRows[i].updated_at < d)
                        => i \in DOMAIN jobRows'
              /\ DOMAIN jobRows' \subseteq DOMAIN jobRows
              /\ \A i \in DOMAIN jobRows' : jobRows'[i] = jobRows[i]]_vars

\* a cleanup removed an old terminal job and kept an old job still Running
C28_Witness ==
    /\ gcResult = 1
    /\ \E i \in DOMAIN jobRows :
          jobRows[i].status = "Running" /\ now - jobRows[i].updated_at >= MaxDays

\* ========================================================= SessionManager
MaxAuthSessions == 2   \* sessions created
MaxAuthTime == 3       \* ticks the clock runs
SessionTimeout == 1    \* session_timeout (24 h), in ticks
Users == {"u1", "u2"}

\* an update_activity that also marks the session active again
update_activity_reactivating(session, t) ==
    [session EXCEPT !.last_activity = t, !.is_active = TRUE]

\* SessionManager::update_activity on the session found
update_activity(session, t) ==
    [session EXCEPT !.last_activity = t]

\* SessionManager::get_user_sessions
get_user_sessions(user_id) ==
    {id \in DOMAIN authSessions :
        authSessions[id].user_id = user_id /\ authSessions[id].is_active}

\* SessionManager::get_session (None: the empty sequence)
get_session(id) ==
    IF id \in DOMAIN authSessions THEN <<authSessions[id]>> ELSE <<>>

\* SessionManager::create_session: a fresh id, active, stamped now
AuthCreateSession(user_id) ==
    /\ nextSession < MaxAuthSessions
    /\ nextSession' = nextSession + 1
    /\ authSessions' = [i \in DOMAIN authSessions \cup {nextSession + 1} |->
                          IF i = nextSession + 1
                          THEN [user_id |-> user_id, last_activity |-> authNow,
                                is_active |-> TRUE]
                          ELSE authSessions[i]]
    /\ UNCHANGED <<authNow, invalidated, notAuth>>

AuthUpdateActivity(id) ==
    /\ authSessions' = [i \in DOMAIN authSessions |->
                          IF i = id THEN update_activity(authSessions[i], authNow)
                          ELSE authSessions[i]]
    /\ UNCHANGED <<authNow, nextSession, invalidated, notAuth>>

\* SessionManager::invalidate_session
AuthInvalidateSession(id) ==
    /\ authSessions' = [i \in DOMAIN authSessions |->
                          IF i = id THEN [authSessions[i] EXCEPT !.is_active = FALSE]
                          ELSE authSessions[i]]
    /\ invalidated' = invalidated \cup ({id} \cap DOMAIN authSessions)
    /\ UNCHANGED <<authNow, nextSession, notAuth>>

\* SessionManager::cleanup_expired_sessions: retain the sessions whose
\* last_activity is not more than session_timeout ago
cleanup_expired_sessions ==
    /\ authSessions' =
         [i \in {k \in DOMAIN authSessions :
                    ~(authNow - authSessions[k].last_activity > SessionTimeout)}
            |-> authSessions[i]]
    /\ UNCHANGED <<authNow, nextSession, invalidated, notAuth>>

AuthTick ==
    /\ authNow < MaxAuthTime
    /\ authNow' = authNow + 1
    /\ UNCHANGED <<authSessions, nextSession, invalidated, notAuth>>

AuthNext ==
    \/ \E u \in Users : AuthCreateSession(u)
    \/ \E id \in 1..MaxAuthSessions : AuthUpdateActivity(id)
    \/ \E id \in 1..MaxAuthSessions : AuthInvalidateSession(id)
    \/ cleanup_expired_sessions
    \/ AuthTick

SpecAuth == Init /\ [][AuthNext]_vars

\* C30: invalidation is permanent: an invalidated session is never active
\* again and get_user_sessions never returns it, while get_session still
\* returns it (inactive) until cleanup_expired_sessions removes it.
C30_InvalidationIsPermanent ==
    /\ [](\A id \in invalidated :
            /\ \A u \in Users : id \notin get_user_sessions(u)
            /\ get_session(id) # <<>> => ~get_session(id)[1].is_active)
    /\ [][\A id \in invalidated :
            (get_session(id) # <<>> /\ id \notin DOMAIN authSessions')
                => cleanup_expired_sessions]_vars

\* one invalidated session is still stored, inactive, with its activity
\* refreshed after it was created; another has been removed by cleanup
C30_Witness ==
    /\ \E id \in invalidated :
          /\ get_session(id) # <<>>
          /\ get_session(id)[1].last_activity = authNow
          /\ authNow > SessionTimeout
    /\ \E id \in invalidated : get_session(id) = <<>>
====
